---- MODULE Spec2Model ----
(***************************************************************************)
(* Model of the reorder dashboard's derivation pipeline:                   *)
(*   services/googleSheetsService.ts  (tabular parser, record              *)
(*   reconstruction, SKU decoding, synthetic fallback) and the state of    *)
(*   App.tsx that consumes it.                                             *)
(*                                                                         *)
(* Text is a sequence of characters; a character is a one-element string.  *)
(* Hangul syllables of the source's literals are written "uXXXX" (their    *)
(* code point), one element per syllable.                                  *)
(***************************************************************************)
EXTENDS Integers, Sequences, FiniteSets, TLC

VARIABLES
    row,            \* parser harness: the line handed to the row scanner
    result,         \* parser harness: the fields it returned (NoFields before)
    sku,            \* SKU harness: the code handed to analyzeSkuMetadata
    meta,           \* SKU harness: what it returned (NoMeta before)
    csvText,        \* the text of the response of the pass in flight / last pass
    fetchOutcome,   \* "ok" | "notOk" | "reject": how the fetch of that pass ended
    now,            \* the local date when that pass started
    midnight,       \* number of clock reads of the pass made before midnight passes
    pc,             \* "idle" | "fetching": loadData's position
    inventory,      \* App state: the record sequence
    orderedItems,   \* App state: the actioned ids
    loading,        \* App state
    refreshing,     \* App state
    random          \* the Math.random() draws the fallback generator will make

vars == <<row, result, sku, meta, csvText, fetchOutcome, now, midnight, pc,
          inventory, orderedItems, loading, refreshing, random>>

\* What result and meta hold before their harness step has run.
NoFields == <<>>
NoMeta == [type |-> <<>>, leadTime |-> 0, isSeasonalFit |-> FALSE]

----------------------------------------------------------------------------
(* Strings *)

\* String.prototype.trim strips these (the ones that can occur in a line).
WhiteSpace == {" ", "\t", "\r"}

RECURSIVE TrimStart(_)
TrimStart(s) ==
    IF s # <<>> /\ Head(s) \in WhiteSpace THEN TrimStart(Tail(s)) ELSE s

RECURSIVE TrimEnd(_)
TrimEnd(s) ==
    IF s # <<>> /\ s[Len(s)] \in WhiteSpace
    THEN TrimEnd(SubSeq(s, 1, Len(s) - 1)) ELSE s

Trim(s) == TrimEnd(TrimStart(s))

\* TLC hands an operator its arguments unevaluated; a loop over a long text
\* is therefore folded by halves, the left half evaluated (Forced) before the
\* right half starts, so that the evaluation stays shallow.
Forced(v) == v = v

\* csvText.split('\n'): the pieces between line feeds (always at least one).
\* State of the fold: the finished pieces and the piece being read.
SplitChar(st, char) ==
    IF char = "\n" THEN [done |-> Append(st.done, st.cur), cur |-> <<>>]
    ELSE [done |-> st.done, cur |-> Append(st.cur, char)]

RECURSIVE SplitRange(_, _, _, _)
SplitRange(text, st, lo, hi) ==
    IF lo > hi THEN st
    ELSE IF lo = hi THEN SplitChar(st, text[lo])
    ELSE LET left == SplitRange(text, st, lo, (lo + hi) \div 2)
         IN IF Forced(left) THEN SplitRange(text, left, (lo + hi) \div 2 + 1, hi)
            ELSE left

SplitLines(text) ==
    LET st == SplitRange(text, [done |-> <<>>, cur |-> <<>>], 1, Len(text))
    IN Append(st.done, st.cur)

----------------------------------------------------------------------------
(* Tabular parser: the callback of rows = csvText.split('\n').map(...) *)

\* A loop body that lets a comma end the field inside quotes too.
ScanCharSplitsQuoted(st, char) ==
    IF char = "\"" THEN [st EXCEPT !.inQuotes = ~st.inQuotes]
    ELSE IF char = ","
         THEN [st EXCEPT !.result = Append(st.result, Trim(st.current)),
                         !.current = <<>>]
         ELSE [st EXCEPT !.current = Append(st.current, char)]

\* The body of the for loop over the characters of one line.
\* State: current, inQuotes, result as in the source.
ScanChar(st, char) ==
    IF char = "\"" THEN [st EXCEPT !.inQuotes = ~st.inQuotes]
    ELSE IF char = "," /\ ~st.inQuotes
         THEN [st EXCEPT !.result = Append(st.result, Trim(st.current)),
                         !.current = <<>>]
         ELSE [st EXCEPT !.current = Append(st.current, char)]

RECURSIVE ScanRange(_, _, _, _)
ScanRange(line, st, lo, hi) ==
    IF lo > hi THEN st
    ELSE IF lo = hi THEN ScanChar(st, line[lo])
    ELSE LET left == ScanRange(line, st, lo, (lo + hi) \div 2)
         IN IF Forced(left) THEN ScanRange(line, left, (lo + hi) \div 2 + 1, hi)
            ELSE left

ParseRow(line) ==
    LET st == ScanRange(line, [current |-> <<>>, inQuotes |-> FALSE, result |-> <<>>],
                        1, Len(line))
    IN Append(st.result, Trim(st.current))

ParseCsv(text) ==
    LET lines == SplitLines(text)
    IN [k \in 1..Len(lines) |-> ParseRow(lines[k])]

----------------------------------------------------------------------------
(* SKU decoding: analyzeSkuMetadata *)

\* The item-type literals of the source, as their code points.
TypeGeneral == <<"uC77C", "uBC18">>
TypePadding == <<"uD328", "uB529">>
TypeOuter   == <<"uC544", "uC6B0", "uD130">>

LowerCase == <<"a","b","c","d","e","f","g","h","i","j","k","l","m",
               "n","o","p","q","r","s","t","u","v","w","x","y","z">>
UpperCase == <<"A","B","C","D","E","F","G","H","I","J","K","L","M",
               "N","O","P","Q","R","S","T","U","V","W","X","Y","Z">>

\* String.prototype.toUpperCase, character by character.
ToUpperChar(c) ==
    IF \E k \in 1..26 : LowerCase[k] = c
    THEN UpperCase[CHOOSE k \in 1..26 : LowerCase[k] = c]
    ELSE c

ToUpperCase(s) == [k \in 1..Len(s) |-> ToUpperChar(s[k])]

\* s.substring(from, to) for 0 <= from <= to, 0-based, end exclusive.
Substring(s, from, to) ==
    SubSeq(s, from + 1, IF to > Len(s) THEN Len(s) ELSE to)

MinSkuLength == 7
FallbackLeadTime == 14
DefaultLeadTime == 21
PaddingLeadTime == 50
OuterLeadTime == 35

PaddingCodes == {<<"D","W">>, <<"D","V">>}
OuterCodes == {<<"C","T">>, <<"J","P">>, <<"J","K">>, <<"W","B">>,
               <<"T","J">>, <<"V","T">>, <<"A","R">>, <<"C","D">>}

\* A season table whose seasons start one month late.
CurrentSeasonCodesLate(month) ==
    {"A", "C", "O"} \cup
        (IF month >= 3 /\ month <= 5 THEN {"S"}
         ELSE IF month >= 6 /\ month <= 8 THEN {"U"}
         ELSE IF month >= 9 /\ month <= 11 THEN {"F"}
         ELSE {"W"})

\* currentSeasonCodes for a month 1..12 (new Date().getMonth() + 1).
CurrentSeasonCodes(month) ==
    {"A", "C", "O"} \cup
        (IF month >= 2 /\ month <= 4 THEN {"S"}
         ELSE IF month >= 5 /\ month <= 7 THEN {"U"}
         ELSE IF month >= 8 /\ month <= 10 THEN {"F"}
         ELSE {"W"})

\* A decoder that compares the sub-category code without folding its case.
AnalyzeSkuMetadataCaseSensitive(code, date) ==
    IF code = <<>> \/ Len(code) < MinSkuLength
    THEN [type |-> TypeGeneral, leadTime |-> FallbackLeadTime, isSeasonalFit |-> TRUE]
    ELSE LET seasonCode == ToUpperCase(Substring(code, 3, 4))
             subCategoryCode == Substring(code, 5, 7)
             isSeasonalFit == \E c \in CurrentSeasonCodes(date.m) : seasonCode = <<c>>
         IN IF subCategoryCode \in PaddingCodes
            THEN [type |-> TypePadding, leadTime |-> PaddingLeadTime,
                  isSeasonalFit |-> isSeasonalFit]
            ELSE IF subCategoryCode \in OuterCodes
            THEN [type |-> TypeOuter, leadTime |-> OuterLeadTime,
                  isSeasonalFit |-> isSeasonalFit]
            ELSE [type |-> TypeGeneral, leadTime |-> DefaultLeadTime,
                  isSeasonalFit |-> isSeasonalFit]

\* A decoder whose fallback judges the season of the characters it has.
AnalyzeSkuMetadataSeasonOfShort(code, date) ==
    [type |-> TypeGeneral, leadTime |-> FallbackLeadTime,
     isSeasonalFit |->
        \E c \in CurrentSeasonCodes(date.m) : ToUpperCase(Substring(code, 3, 4)) = <<c>>]

\* analyzeSkuMetadata(sku), with the date its new Date() returns.
AnalyzeSkuMetadata(code, date) ==
    IF code = <<>> \/ Len(code) < MinSkuLength
    THEN [type |-> TypeGeneral, leadTime |-> FallbackLeadTime, isSeasonalFit |-> TRUE]
    ELSE LET seasonCode == ToUpperCase(Substring(code, 3, 4))
             subCategoryCode == ToUpperCase(Substring(code, 5, 7))
             month == date.m
             isSeasonalFit == \E c \in CurrentSeasonCodes(month) : seasonCode = <<c>>
         IN IF subCategoryCode \in PaddingCodes
            THEN [type |-> TypePadding, leadTime |-> PaddingLeadTime,
                  isSeasonalFit |-> isSeasonalFit]
            ELSE IF subCategoryCode \in OuterCodes
            THEN [type |-> TypeOuter, leadTime |-> OuterLeadTime,
                  isSeasonalFit |-> isSeasonalFit]
            ELSE [type |-> TypeGeneral, leadTime |-> DefaultLeadTime,
                  isSeasonalFit |-> isSeasonalFit]

----------------------------------------------------------------------------
(* Calendar: the local date of a JS Date, and Date.prototype.setDate *)

IsLeapYear(y) == (y % 4 = 0 /\ y % 100 # 0) \/ y % 400 = 0

DaysInMonth(y, m) ==
    IF m = 2 THEN (IF IsLeapYear(y) THEN 29 ELSE 28)
    ELSE IF m \in {4, 6, 9, 11} THEN 30 ELSE 31

\* d.setDate(n): day n of d's month, n outside 1..DaysInMonth carried into
\* the neighbouring months.
RECURSIVE SetDate(_, _)
SetDate(date, n) ==
    IF n > DaysInMonth(date.y, date.m)
    THEN SetDate(IF date.m = 12 THEN [y |-> date.y + 1, m |-> 1, d |-> 1]
                 ELSE [y |-> date.y, m |-> date.m + 1, d |-> 1],
                 n - DaysInMonth(date.y, date.m))
    ELSE IF n < 1
    THEN LET prev == IF date.m = 1 THEN [y |-> date.y - 1, m |-> 12, d |-> 1]
                     ELSE [y |-> date.y, m |-> date.m - 1, d |-> 1]
         IN SetDate(prev, n + DaysInMonth(prev.y, prev.m))
    ELSE [y |-> date.y, m |-> date.m, d |-> n]

\* The clock: read number k of a pass that started on date start, when
\* midnight passes after `mid` reads.
Clock(start, mid, k) ==
    IF k < mid THEN start ELSE SetDate(start, start.d + 1)


----------------------------------------------------------------------------
(* IEEE-754 binary64 division, as JS evaluates a / b on Numbers.           *)
(* A 53-bit significand is held in two limbs <<hi, lo>> = hi * 2^26 + lo,  *)
(* lo < 2^26, so that every intermediate fits a 32-bit integer.            *)

RECURSIVE Pow2(_)
Pow2(n) == IF n = 0 THEN 1 ELSE 2 * Pow2(n - 1)

Limb == 67108864
\* hi of 2^52: a normalised significand has hi in [2^26, 2^27)
SigTop == 67108864

BigDouble(x, bit) ==        \* 2x + bit
    LET lo2 == 2 * x[2] + bit
    IN <<2 * x[1] + lo2 \div Limb, lo2 % Limb>>

BigGeq(x, y) == x[1] > y[1] \/ (x[1] = y[1] /\ x[2] >= y[2])

BigSub(x, y) ==             \* x - y for x >= y
    IF x[2] >= y[2] THEN <<x[1] - y[1], x[2] - y[2]>>
    ELSE <<x[1] - y[1] - 1, x[2] + Limb - y[2]>>

BigInc(x) == IF x[2] + 1 = Limb THEN <<x[1] + 1, 0>> ELSE <<x[1], x[2] + 1>>

\* Round to nearest, ties to even: sig is the truncated 53-bit significand
\* of a value sig * 2^exp; half is -1, 0, 1 as the discarded part is below,
\* at, above one half of the last place.
RoundNearestEven(sig, exp, half) ==
    LET up == half = 1 \/ (half = 0 /\ sig[2] % 2 = 1)
        r == IF up THEN BigInc(sig) ELSE sig
    IN IF r[1] = 2 * SigTop THEN [sig |-> <<SigTop, 0>>, exp |-> exp + 1]
       ELSE [sig |-> r, exp |-> exp]

\* Long division runs one quotient bit a step until the quotient holds 53
\* bits; the steps are composed by halving so that the evaluation stays
\* shallow.  A state is [q, r, exp]: q * 2^exp is the quotient so far and r
\* the remainder.
MaxDivSteps == 128

\* a / b for integers a > 0, b > 0 below 2^26, one step.
DivSmallStep(s, b) ==
    IF s.q[1] >= SigTop THEN s
    ELSE LET bit == IF 2 * s.r >= b THEN 1 ELSE 0
         IN [q |-> BigDouble(s.q, bit), r |-> 2 * s.r - bit * b, exp |-> s.exp - 1]

RECURSIVE DivSmallSteps(_, _, _)
DivSmallSteps(s, b, n) ==
    IF n = 1 THEN DivSmallStep(s, b)
    ELSE LET mid == DivSmallSteps(s, b, n \div 2)
         IN IF mid.q[1] >= SigTop THEN mid
            ELSE DivSmallSteps(mid, b, n - n \div 2)

DivSmall(a, b) ==
    LET s == DivSmallSteps([q |-> <<0, a \div b>>, r |-> a % b, exp |-> 0],
                           b, MaxDivSteps)
    IN RoundNearestEven(s.q, s.exp,
           IF 2 * s.r > b THEN 1 ELSE IF 2 * s.r = b THEN 0 ELSE -1)

\* a / m for an integer a > 0 below 2^26 and a 53-bit significand m, one step.
DivBigStep(s, m) ==
    IF s.q[1] >= SigTop THEN s
    ELSE LET r2 == BigDouble(s.r, 0)
             bit == IF BigGeq(r2, m) THEN 1 ELSE 0
         IN [q |-> BigDouble(s.q, bit),
             r |-> IF bit = 1 THEN BigSub(r2, m) ELSE r2,
             exp |-> s.exp - 1]

RECURSIVE DivBigSteps(_, _, _)
DivBigSteps(s, m, n) ==
    IF n = 1 THEN DivBigStep(s, m)
    ELSE LET mid == DivBigSteps(s, m, n \div 2)
         IN IF mid.q[1] >= SigTop THEN mid
            ELSE DivBigSteps(mid, m, n - n \div 2)

\* a / x for an integer a > 0 below 2^26 and a double x > 0.
DivByDouble(a, x) ==
    LET s == DivBigSteps([q |-> <<0, 0>>, r |-> <<0, a>>, exp |-> 0],
                         x.sig, MaxDivSteps)
        r2 == BigDouble(s.r, 0)
        u == RoundNearestEven(s.q, s.exp,
                 IF r2 = x.sig THEN 0 ELSE IF BigGeq(r2, x.sig) THEN 1 ELSE -1)
    IN [sig |-> u.sig, exp |-> u.exp - x.exp]

\* Math.floor of a double x > 0 whose floor is below 2^31.
FloorDouble(x) ==
    IF x.exp >= 0 THEN (x.sig[1] * Limb + x.sig[2]) * Pow2(x.exp)
    ELSE IF -x.exp >= 53 THEN (IF x.sig[1] = 2 * SigTop THEN 1 ELSE 0)
    ELSE IF -x.exp >= 26 THEN x.sig[1] \div Pow2(-x.exp - 26)
    ELSE x.sig[1] * Pow2(26 + x.exp) + x.sig[2] \div Pow2(-x.exp)

\* Whether a double x > 0 is an integer.
IsIntegerDouble(x) ==
    IF x.exp >= 0 THEN TRUE
    ELSE IF -x.exp >= 53 THEN FALSE
    ELSE IF -x.exp >= 26
         THEN x.sig[2] = 0 /\ x.sig[1] % Pow2(-x.exp - 26) = 0
         ELSE x.sig[2] % Pow2(-x.exp) = 0


----------------------------------------------------------------------------
(* Numbers in text *)

Digits == <<"0","1","2","3","4","5","6","7","8","9">>
HexLower == <<"0","1","2","3","4","5","6","7","8","9","a","b","c","d","e","f">>

\* A parsed number is <<n>>; NaN is the empty tuple.  undefined is a tuple
\* that is no text.
NaN == <<>>
Undefined == <<"undefined">>

\* The value of character c as a digit of the radix, or -1.
DigitValue(c, radix) ==
    LET lc == IF \E k \in 1..26 : UpperCase[k] = c
              THEN LowerCase[CHOOSE k \in 1..26 : UpperCase[k] = c] ELSE c
    IN IF \E k \in 1..radix : HexLower[k] = lc
       THEN (CHOOSE k \in 1..radix : HexLower[k] = lc) - 1
       ELSE -1

\* The longest run of digits at the head of s, as a number; NaN when empty.
RECURSIVE DigitRun(_, _, _, _)
DigitRun(s, i, radix, acc) ==
    IF i <= Len(s) /\ DigitValue(s[i], radix) >= 0
    THEN DigitRun(s, i + 1, radix,
                  <<(IF acc = NaN THEN 0 ELSE acc[1] * radix) + DigitValue(s[i], radix)>>)
    ELSE acc

\* parseInt(v) without a radix: leading white space, a sign, an optional 0x,
\* then the digits up to the first character that is none.
ParseInt(v) ==
    IF v = Undefined THEN NaN
    ELSE LET t == TrimStart(v)
             neg == t # <<>> /\ t[1] = "-"
             u == IF t # <<>> /\ t[1] \in {"-", "+"} THEN Tail(t) ELSE t
             hex == Len(u) >= 2 /\ u[1] = "0" /\ u[2] \in {"x", "X"}
             n == IF hex THEN DigitRun(u, 3, 16, NaN) ELSE DigitRun(u, 1, 10, NaN)
         IN IF n = NaN THEN NaN ELSE IF neg THEN <<-n[1]>> ELSE n

\* parseInt(v) || fallback: NaN and 0 are falsy.
ParseIntOr(v, fallback) ==
    LET n == ParseInt(v) IN IF n = NaN \/ n = <<0>> THEN fallback ELSE n[1]

\* The decimal digits of n >= 0, as `${n}` writes them.
RECURSIVE ToDigits(_)
ToDigits(n) ==
    IF n < 10 THEN <<Digits[n + 1]>>
    ELSE Append(ToDigits(n \div 10), Digits[(n % 10) + 1])

----------------------------------------------------------------------------
(* Record reconstruction: fetchInventoryData *)

\* Column positions (0-based, as row[k] in the source).
ColCategory == 1
ColBrand == 2
ColSku == 3
ColBarcode == 4
ColSafetyStock == 6
ColReorderPoint == 7
ColUnitCost == 10
ColProductName == 12
ColLastWeekSales == 21
ColCurrentWeekSales == 22
ColCurrentStock == 33
ColInProductionStock == 34

\* rows.slice(1).filter(row => row.length > 33)
MinRowLength == 33

DefaultReorderPoint == 10
DefaultSafetyStock == 5
NoSalesHorizon == 365
StableHorizon == 360
CriticalDays == 10
WarningDays == 20

\* The string literals of lines 107-110 and 123-124, Hangul as code points.
DefaultCategory == <<"uAE30", "uD0C0">>
DefaultBrand == <<"uBE0C", "uB79C", "uB4DC">>
UnknownProductName == <<"uC54C", " ", "uC218", " ", "uC5C6", "uB294", " ", "uC0C1", "uD488">>
NoBarcode == <<"N", "/", "A">>
StableLabel == <<"uC548", "uC815", "uC801">>
NotApplicableLabel == <<"uD574", "uB2F9", "uC5C6", "uC74C">>

SAFE == "Safe"
WARNING == "Warning"
CRITICAL == "Critical"

\* row[k]
Col(r, k) == IF k < Len(r) THEN r[k + 1] ELSE Undefined

\* v is truthy: neither undefined nor ''
Truthy(v) == v # Undefined /\ v # <<>>

\* v || fallback, for a string v
OrElse(v, fallback) == IF Truthy(v) THEN v ELSE fallback

\* d.toLocaleDateString('ko-KR'): "2026. 11. 1."
ToLocaleDateString(date) ==
    ToDigits(date.y) \o <<".", " ">> \o ToDigits(date.m) \o <<".", " ">>
        \o ToDigits(date.d) \o <<".">>

\* A lastWeekSales test that also sends equal weeks to the first branch.
SalesGrowthNoZeroTest(currentWeekSales, lastWeekSales) ==
    IF lastWeekSales = 0 \/ lastWeekSales = currentWeekSales
    THEN [num |-> IF currentWeekSales > 0 THEN 100 ELSE 0, den |-> 1]
    ELSE [num |-> (currentWeekSales - lastWeekSales) * 100, den |-> lastWeekSales]

\* salesGrowth, as the exact quotient num / den (den # 0).
SalesGrowth(currentWeekSales, lastWeekSales) ==
    IF lastWeekSales = 0
    THEN [num |-> IF currentWeekSales > 0 THEN 100 ELSE 0, den |-> 1]
    ELSE [num |-> (currentWeekSales - lastWeekSales) * 100, den |-> lastWeekSales]

\* daysToStockOut: dailySales = currentWeekSales / 7 and
\* Math.floor(currentStock / dailySales), both divisions in binary64.
DaysToStockOut(currentStock, currentWeekSales) ==
    IF currentWeekSales > 0
    THEN LET dailySales == DivSmall(currentWeekSales, 7)
         IN IF currentStock = 0 THEN 0
            ELSE IF currentStock > 0
            THEN FloorDouble(DivByDouble(currentStock, dailySales))
            ELSE LET x == DivByDouble(-currentStock, dailySales)
                 IN IF IsIntegerDouble(x) THEN -FloorDouble(x)
                    ELSE -FloorDouble(x) - 1
    ELSE NoSalesHorizon

\* A classification that tests the Warning thresholds first.
StatusWarningFirst(currentStock, reorderPoint, daysToStockOut) ==
    IF currentStock <= reorderPoint \/ daysToStockOut <= WarningDays THEN WARNING
    ELSE IF 2 * currentStock <= reorderPoint \/ daysToStockOut <= CriticalDays
    THEN CRITICAL
    ELSE SAFE

\* status (reorderPoint * 0.5 is exact in binary64).
Status(currentStock, reorderPoint, daysToStockOut) ==
    IF 2 * currentStock <= reorderPoint \/ daysToStockOut <= CriticalDays THEN CRITICAL
    ELSE IF currentStock <= reorderPoint \/ daysToStockOut <= WarningDays THEN WARNING
    ELSE SAFE

\* parseFloat(dailySales.toFixed(1)), in tenths (10 * c / 7 is never half
\* way between two integers, so the rounding direction does not matter).
DailySalesAvgTenths(currentWeekSales) ==
    IF currentWeekSales >= 0 THEN (20 * currentWeekSales + 7) \div 14
    ELSE -((20 * (-currentWeekSales) + 7) \div 14)

\* The forward-fill step of one field.
\* A fill that forgets the held value on a blank field.
FillForgets(raw, lastKnown) ==
    IF Truthy(raw) /\ Trim(raw) # <<>> THEN Trim(raw) ELSE <<>>

Fill(raw, lastKnown) ==
    IF Truthy(raw) /\ Trim(raw) # <<>> THEN Trim(raw) ELSE lastKnown

\* The map callback: one retained row r with index idx, the held values
\* held, and the dates the row's clock reads return.
MapRow(r, idx, held, dateSku, today, stockOutNow) ==
    LET lastKnownProductName == Fill(Col(r, ColProductName), held.productName)
        lastKnownBrand == Fill(Col(r, ColBrand), held.brand)
        lastKnownCategory == Fill(Col(r, ColCategory), held.category)
        skuOfRow == OrElse(Col(r, ColSku), <<>>)
        decoded == AnalyzeSkuMetadata(skuOfRow, dateSku)
        currentStock == ParseIntOr(Col(r, ColCurrentStock), 0)
        inProductionStock == ParseIntOr(Col(r, ColInProductionStock), 0)
        reorderPoint == ParseIntOr(Col(r, ColReorderPoint), DefaultReorderPoint)
        currentWeekSales == ParseIntOr(Col(r, ColCurrentWeekSales), 0)
        lastWeekSales == ParseIntOr(Col(r, ColLastWeekSales), 0)
        daysToStockOut == DaysToStockOut(currentStock, currentWeekSales)
        stockOutDate == SetDate(stockOutNow, today.d + daysToStockOut)
        suggestedOrder == SetDate(stockOutDate, stockOutDate.d - decoded.leadTime)
    IN [held |-> [productName |-> lastKnownProductName,
                  brand |-> lastKnownBrand,
                  category |-> lastKnownCategory],
        item |->
          [id |-> <<"r", "o", "w", "-">> \o ToDigits(idx),
           category |-> OrElse(lastKnownCategory, DefaultCategory),
           brand |-> OrElse(lastKnownBrand, DefaultBrand),
           productName |-> OrElse(lastKnownProductName, UnknownProductName),
           barcode |-> OrElse(Col(r, ColBarcode), NoBarcode),
           sku |-> skuOfRow,
           currentStock |-> currentStock,
           inProductionStock |-> inProductionStock,
           safetyStock |-> ParseIntOr(Col(r, ColSafetyStock), DefaultSafetyStock),
           reorderPoint |-> reorderPoint,
           dailySalesAvg |-> [tenths |-> DailySalesAvgTenths(currentWeekSales)],
           currentWeekSales |-> currentWeekSales,
           lastWeekSales |-> lastWeekSales,
           leadTimeDays |-> decoded.leadTime,
           unitCost |-> ParseIntOr(Col(r, ColUnitCost), 0),
           status |-> Status(currentStock, reorderPoint, daysToStockOut),
           salesGrowth |-> SalesGrowth(currentWeekSales, lastWeekSales),
           expectedStockOutDate |->
               IF daysToStockOut > StableHorizon THEN StableLabel
               ELSE ToLocaleDateString(stockOutDate),
           suggestedOrderDate |->
               IF daysToStockOut > StableHorizon THEN NotApplicableLabel
               ELSE ToLocaleDateString(suggestedOrder),
           itemType |-> decoded.type,
           isSeasonalFit |-> decoded.isSeasonalFit]]

\* A filter that also keeps rows of exactly 33 fields.
RetainedOffByOne(r) == Len(r) >= MinRowLength

\* .filter(row => row.length > 33)
Retained(r) == Len(r) > MinRowLength

\* .map over the retained rows from index idx on, threading the held values.
RECURSIVE MapRows(_, _, _, _, _)
MapRows(retained, idx, held, start, mid) ==
    IF idx >= Len(retained) THEN <<>>
    ELSE LET out == MapRow(retained[idx + 1], idx, held,
                           Clock(start, mid, 3 * idx),
                           Clock(start, mid, 3 * idx + 1),
                           Clock(start, mid, 3 * idx + 2))
         IN <<out.item>> \o MapRows(retained, idx + 1, out.held, start, mid)

\* A final filter that keeps every item.
KeepItemAll(item) == TRUE

\* .filter(item => item.productName !== <the unknown-product literal>)
KeepItem(item) == item.productName # UnknownProductName

\* A reconstruction whose held values outlive the pass: it starts from the
\* values of the last record of the inventory.
ReconstructKeepsHeld(text, start, mid) ==
    LET rows == ParseCsv(text)
        retained == SelectSeq(SubSeq(rows, 2, Len(rows)), Retained)
        kept == IF inventory = <<>>
                THEN [productName |-> <<>>, brand |-> <<>>, category |-> <<>>]
                ELSE [productName |-> inventory[Len(inventory)].productName,
                      brand |-> inventory[Len(inventory)].brand,
                      category |-> inventory[Len(inventory)].category]
    IN SelectSeq(MapRows(retained, 0, kept, start, mid), KeepItem)

\* The try block from the text of an OK response: parse, reconstruct, filter.
\* start is the date of the pass's first clock read, mid the number of reads
\* made before midnight passes.
Reconstruct(text, start, mid) ==
    LET rows == ParseCsv(text)
        retained == SelectSeq(SubSeq(rows, 2, Len(rows)), Retained)
        none == [productName |-> <<>>, brand |-> <<>>, category |-> <<>>]
    IN SelectSeq(MapRows(retained, 0, none, start, mid), KeepItem)


----------------------------------------------------------------------------
(* Synthetic fallback: generateMockData *)

MockCount == 50
MockReorderPoint == 40
MockSafetyStock == 10
MockUnitCost == 45000
MockCriticalStock == 25
MockWarningStock == 50
MockPaddingEvery == 8

MockCategoryPadding == <<"uC544", "uC6B0", "uD130">>
MockCategoryTop == <<"uC0C1", "uC758">>
MockBrand == <<"F", "I", "L", "L", "U", "M", "I", "N", "A", "T", "E">>
MockNamePadding ==
    <<"uD544", "uB8E8", "uBBF8", "uB124", "uC774", "uD2B8", " ", "uD504", "uB9AC",
      "uBBF8", "uC5C4", " ", "uB355", "uB2E4", "uC6B4", " ", "uD328", "uB529", " ">>
MockNameTop ==
    <<"uD544", "uB8E8", "uBBF8", "uB124", "uC774", "uD2B8", " ", "uBCA0", "uC774",
      "uC9C1", " ", "uD2F0", "uC154", "uCE20", " ">>

\* One record of the generator.  draw holds what its four Math.random()
\* calls come to: cSales, lSales, stock, inProd.
MockItem(i, draw, dateSku, d1Now) ==
    LET isPadding == i % MockPaddingEvery = 0
        skuOfItem == IF isPadding
                     THEN <<"F","B","E","W","O","D","W","0","0">> \o ToDigits(i)
                              \o <<"B","K","0","0","M">>
                     ELSE <<"F","B","E","S","U","T","S","0","0">> \o ToDigits(i)
                              \o <<"W","H","0","0","L">>
        decoded == AnalyzeSkuMetadata(skuOfItem, dateSku)
        \* dailySales || 1: cSales >= 20, so dailySales is never 0
        daysToStockOut == DaysToStockOut(draw.stock, draw.cSales)
        d1 == SetDate(d1Now, d1Now.d + daysToStockOut)
        d3 == SetDate(d1, d1.d - decoded.leadTime)
    IN [id |-> <<"m", "o", "c", "k", "-">> \o ToDigits(i),
        category |-> IF isPadding THEN MockCategoryPadding ELSE MockCategoryTop,
        brand |-> MockBrand,
        productName |-> (IF isPadding THEN MockNamePadding ELSE MockNameTop)
                            \o ToDigits(i),
        barcode |-> <<"8","8","0","9","1","2","3","4","5">> \o ToDigits(i),
        sku |-> skuOfItem,
        currentStock |-> draw.stock,
        inProductionStock |-> draw.inProd,
        safetyStock |-> MockSafetyStock,
        reorderPoint |-> MockReorderPoint,
        dailySalesAvg |-> [tenths |-> DailySalesAvgTenths(draw.cSales)],
        currentWeekSales |-> draw.cSales,
        lastWeekSales |-> draw.lSales,
        leadTimeDays |-> decoded.leadTime,
        unitCost |-> MockUnitCost,
        status |-> IF draw.stock < MockCriticalStock THEN CRITICAL
                   ELSE IF draw.stock < MockWarningStock THEN WARNING ELSE SAFE,
        salesGrowth |->
            IF draw.lSales = 0 THEN [num |-> 100, den |-> 1]
            ELSE [num |-> (draw.cSales - draw.lSales) * 100, den |-> draw.lSales],
        expectedStockOutDate |->
            IF daysToStockOut > StableHorizon THEN StableLabel
            ELSE ToLocaleDateString(d1),
        suggestedOrderDate |->
            IF daysToStockOut > StableHorizon THEN NotApplicableLabel
            ELSE ToLocaleDateString(d3),
        itemType |-> decoded.type,
        isSeasonalFit |-> decoded.isSeasonalFit]

\* Array.from({ length: 50 }).map(...): record i takes the draws
\* draws[i mod Len(draws)] (the draws of a pass repeat with that period).
GenerateMockData(draws, start, mid) ==
    [k \in 1..MockCount |->
        MockItem(k - 1, draws[((k - 1) % Len(draws)) + 1],
                 Clock(start, mid, 2 * (k - 1)), Clock(start, mid, 2 * (k - 1) + 1))]

\* A fetchInventoryData that does not test response.ok.
FetchInventoryDataAnyResponse(outcome, text, start, mid, draws) ==
    IF outcome \in {"ok", "notOk"} THEN Reconstruct(text, start, mid)
    ELSE GenerateMockData(draws, start, mid)

\* fetchInventoryData: the reconstructed records of an OK response, the
\* synthetic set when the fetch rejects or the response is not OK.
FetchInventoryData(outcome, text, start, mid, draws) ==
    IF outcome = "ok" THEN Reconstruct(text, start, mid)
    ELSE GenerateMockData(draws, start, mid)

----------------------------------------------------------------------------
(* Handlers of App *)

\* loadData up to its await: the fetch goes out.  What the network, the
\* clock and Math.random will answer during the pass is fixed here.
LoadData(outcome, text, start, mid, draws) ==
    /\ pc = "idle"
    /\ ~refreshing
    /\ pc' = "fetching"
    /\ refreshing' = TRUE
    /\ fetchOutcome' = outcome
    /\ csvText' = text
    /\ now' = start
    /\ midnight' = mid
    /\ random' = draws
    /\ UNCHANGED <<row, result, sku, meta, inventory, orderedItems, loading>>

\* The fetch settles: fetchInventoryData runs to its return and loadData
\* to its end.
FetchSettles ==
    /\ pc = "fetching"
    /\ inventory' = FetchInventoryData(fetchOutcome, csvText, now, midnight, random)
    /\ loading' = FALSE
    /\ refreshing' = FALSE
    /\ pc' = "idle"
    /\ UNCHANGED <<row, result, sku, meta, csvText, fetchOutcome, now, midnight,
                   orderedItems, random>>

\* An updater that appends the id whether or not the list holds it.
ToggleOrderUpdateAppends(prev, id) == Append(prev, id)

\* The updater toggleOrder hands to setOrderedItems:
\* prev.includes(id) ? prev.filter(i => i !== id) : [...prev, id]
ToggleOrderUpdate(prev, id) ==
    IF \E k \in 1..Len(prev) : prev[k] = id
    THEN SelectSeq(prev, LAMBDA i : i # id)
    ELSE Append(prev, id)

\* toggleOrder(id)
ToggleOrder(id) ==
    /\ orderedItems' = ToggleOrderUpdate(orderedItems, id)
    /\ UNCHANGED <<row, result, sku, meta, csvText, fetchOutcome, now, midnight, pc,
                   inventory, loading, refreshing, random>>

----------------------------------------------------------------------------
(* Derived views of App: topSellers, urgentReorders, stats *)

TopSellersCount == 20
UrgentReordersCount == 20

\* arr.slice(0, n)
Slice(arr, n) == SubSeq(arr, 1, IF Len(arr) < n THEN Len(arr) ELSE n)

\* orderedItems.includes(id)
Includes(ids, id) == \E k \in 1..Len(ids) : ids[k] = id

\* n1 / d1 < n2 / d2 for naturals n1, n2 and positive d1, d2, by whole
\* parts and then the reciprocals of the remainders.
RECURSIVE FracLess(_, _, _, _)
FracLess(n1, d1, n2, d2) ==
    IF n1 \div d1 # n2 \div d2 THEN n1 \div d1 < n2 \div d2
    ELSE IF n2 % d2 = 0 THEN FALSE
    ELSE IF n1 % d1 = 0 THEN TRUE
    ELSE FracLess(d2, n2 % d2, d1, n1 % d1)

\* The score of the sort callback, (currentWeekSales^1.5 / (currentStock +
\* 0.5)) * (isSeasonalFit ? 1.5 : 1), as its sign and its square num / den.
\* The callback runs on records with currentWeekSales > 0 only.
Score(item) ==
    [sign |-> IF 2 * item.currentStock + 1 > 0 THEN 1 ELSE -1,
     num |-> item.currentWeekSales * item.currentWeekSales * item.currentWeekSales
                 * (IF item.isSeasonalFit THEN 9 ELSE 4),
     den |-> (2 * item.currentStock + 1) * (2 * item.currentStock + 1)]

\* x < y for two scores.
ScoreLess(x, y) ==
    IF x.sign # y.sign THEN x.sign < y.sign
    ELSE IF x.sign = 1 THEN FracLess(x.num, x.den, y.num, y.den)
    ELSE FracLess(y.num, y.den, x.num, x.den)

\* (a, b) => b.currentWeekSales - a.currentWeekSales
CompareSales(a, b) == b.currentWeekSales - a.currentWeekSales

\* (a, b) => scoreB - scoreA, as its sign
CompareScore(a, b) ==
    IF ScoreLess(Score(a), Score(b)) THEN 1
    ELSE IF ScoreLess(Score(b), Score(a)) THEN -1
    ELSE 0

\* Array.prototype.sort with a consistent callback is stable: the element
\* at i lands after those the callback puts before it and after the
\* earlier ones it ties with.  cmp[i][j] is the callback on arr[i], arr[j].
SortPlaces(n, cmp) ==
    [i \in 1..n |->
        1 + Cardinality({j \in 1..n : cmp[j][i] < 0})
          + Cardinality({j \in 1..(i - 1) : cmp[j][i] = 0})]

\* arr.sort((a, b) => b.currentWeekSales - a.currentWeekSales)
SortedBySales(arr) ==
    LET n == Len(arr)
        cmp == [i \in 1..n |-> [j \in 1..n |-> CompareSales(arr[i], arr[j])]]
        place == SortPlaces(n, cmp)
    IN IF Forced(place) THEN [p \in 1..n |-> arr[CHOOSE i \in 1..n : place[i] = p]]
       ELSE <<>>

\* A sort by score in ascending order.
SortedByScoreAscending(arr) ==
    LET n == Len(arr)
        cmp == [i \in 1..n |-> [j \in 1..n |-> CompareScore(arr[j], arr[i])]]
        place == SortPlaces(n, cmp)
    IN IF Forced(place) THEN [p \in 1..n |-> arr[CHOOSE i \in 1..n : place[i] = p]]
       ELSE <<>>

\* arr.sort((a, b) => scoreB - scoreA)
SortedByScore(arr) ==
    LET n == Len(arr)
        cmp == [i \in 1..n |-> [j \in 1..n |-> CompareScore(arr[i], arr[j])]]
        place == SortPlaces(n, cmp)
    IN IF Forced(place) THEN [p \in 1..n |-> arr[CHOOSE i \in 1..n : place[i] = p]]
       ELSE <<>>

\* A topSellers that sorts the inventory array itself.
TopSellersRunInPlace(inv) ==
    [view |-> Slice(SortedBySales(inv), TopSellersCount),
     inventory |-> SortedBySales(inv)]

\* The topSellers memo: its value, and the inventory array once it has run
\* (the sort works on the copy [...inventory]).
TopSellersRun(inv) ==
    [view |-> Slice(SortedBySales(inv), TopSellersCount),
     inventory |-> inv]

\* The filter callback of urgentReorders.
Qualifies(item, ordered) ==
    item.currentWeekSales > 0 /\ item.isSeasonalFit /\ ~Includes(ordered, item.id)

\* An urgentReorders whose sort puts ties in reverse input order.
UrgentReordersRunTiesReversed(inv, ordered) ==
    LET kept == SelectSeq(inv, LAMBDA it : Qualifies(it, ordered))
        reversed == [k \in 1..Len(kept) |-> kept[Len(kept) + 1 - k]]
    IN [view |-> Slice(SortedByScore(reversed), UrgentReordersCount),
        inventory |-> inv,
        orderedItems |-> ordered]

\* The urgentReorders memo: its value, and the two arrays once it has run.
UrgentReordersRun(inv, ordered) ==
    [view |-> Slice(SortedByScore(SelectSeq(inv, LAMBDA it : Qualifies(it, ordered))),
                    UrgentReordersCount),
     inventory |-> inv,
     orderedItems |-> ordered]

\* inventory.reduce((acc, i) => acc + i.currentWeekSales, 0) over lo..hi
RECURSIVE SumSales(_, _, _)
SumSales(inv, lo, hi) ==
    IF lo > hi THEN 0
    ELSE IF lo = hi THEN inv[lo].currentWeekSales
    ELSE SumSales(inv, lo, (lo + hi) \div 2) + SumSales(inv, (lo + hi) \div 2 + 1, hi)

\* The stats memo.
Stats(inv, ordered) ==
    [total |-> Len(inv),
     critical |-> Len(SelectSeq(inv,
                     LAMBDA i : i.status = CRITICAL /\ ~Includes(ordered, i.id))),
     totalWeeklySales |-> SumSales(inv, 1, Len(inv)),
     orderedCount |-> Len(ordered)]

\* A render of App: the three memos run on the state.
RenderViews ==
    /\ pc \in {"idle", "fetching"}
    /\ LET top == TopSellersRun(inventory)
           urgent == UrgentReordersRun(top.inventory, orderedItems)
       IN /\ inventory' = urgent.inventory
          /\ orderedItems' = urgent.orderedItems
    /\ UNCHANGED <<row, result, sku, meta, csvText, fetchOutcome, now, midnight, pc,
                   loading, refreshing, random>>

\* Harness steps: the row scanner and the SKU decoder applied to an input.
ParseRowStep ==
    /\ pc = "parse"
    /\ result' = ParseRow(row)
    /\ pc' = "parsed"
    /\ UNCHANGED <<row, sku, meta, csvText, fetchOutcome, now, midnight,
                   inventory, orderedItems, loading, refreshing, random>>

AnalyzeSkuStep ==
    /\ pc = "decode"
    /\ meta' = AnalyzeSkuMetadata(sku, now)
    /\ pc' = "decoded"
    /\ UNCHANGED <<row, result, sku, csvText, fetchOutcome, now, midnight,
                   inventory, orderedItems, loading, refreshing, random>>


----------------------------------------------------------------------------
(* Inputs *)

MaxLineLen == 4         \* parser harness: lines of up to this many characters
MaxRows == 3            \* ingestion: data lines of a text
MaxStock == 12          \* derivation: currentStock texts 0..MaxStock
MaxSales == 10          \* derivation: currentWeekSales texts 0..MaxSales
MaxTail == 1            \* SKU harness: characters after the sub-category code

NumCols == 35           \* columns of a full sheet row (A..AI)

RECURSIVE JoinComma(_)
JoinComma(fields) ==
    IF Len(fields) = 0 THEN <<>>
    ELSE IF Len(fields) = 1 THEN fields[1]
    ELSE fields[1] \o <<",">> \o JoinComma(Tail(fields))

RECURSIVE JoinLines(_)
JoinLines(lines) ==
    IF Len(lines) = 0 THEN <<>>
    ELSE IF Len(lines) = 1 THEN lines[1]
    ELSE lines[1] \o <<"\n">> \o JoinLines(Tail(lines))

\* A sheet line of n columns whose cells are blank except those cells names
\* (a function from 0-based column to text).
SheetLine(n, cells) ==
    JoinComma([k \in 1..n |-> IF (k - 1) \in DOMAIN cells THEN cells[k - 1] ELSE <<>>])

HeaderLine == <<"h", "d", "r">>

TextOf(lines) == JoinLines(<<HeaderLine>> \o lines)

\* All sequences over S of length 0..n.
SeqsUpTo(S, n) == UNION {[1..k -> S] : k \in 0..n}

Dates == {[y |-> 2026, m |-> 11, d |-> 1], [y |-> 2026, m |-> 1, d |-> 31],
          [y |-> 2024, m |-> 2, d |-> 28], [y |-> 2026, m |-> 12, d |-> 31]}
MonthDates == {[y |-> 2026, m |-> k, d |-> 15] : k \in 1..12}
NoMidnight == 1000      \* more clock reads than any pass makes

Draws == <<[cSales |-> 20, lSales |-> 12, stock |-> 0, inProd |-> 0],
           [cSales |-> 30, lSales |-> 29, stock |-> 87, inProd |-> 39]>>

(* Parser harness: every line over a small alphabet. *)
LineChars == {",", "\"", " ", "a"}
Lines == SeqsUpTo(LineChars, MaxLineLen) \cup
         {<<"\"", "A", "c", "m", "e", ",", " ", "I", "n", "c", "\"">>,
          <<"x", ",", "\"", "A", "c", "m", "e", ",", " ", "I", "n", "c", "\"", ",", "y">>}

(* SKU harness. *)
SeasonChars == {"S", "U", "F", "W", "A", "C", "O", "X", "s", "w", "a", "1"}
SubCodes == PaddingCodes \cup OuterCodes \cup
            {<<"T", "S">>, <<"d", "w">>, <<"c", "t">>, <<"D", "X">>, <<"W", "D">>}
LongSku == <<"F", "B", "E", "S", "U", "T", "S", "0", "0", "1", "W", "H", "0", "0", "L">>
Skus == {SubSeq(LongSku, 1, n) : n \in 0..(MinSkuLength - 1)} \cup
        {<<"F", "B", "E", s, "0">> \o c \o t :
            s \in SeasonChars, c \in SubCodes, t \in SeqsUpTo({"9"}, MaxTail)}

(* Ingestion, forward fill: the data lines of a text are drawn by kind;   *)
(* the cell texts of line k name k, so that a record shows which line a   *)
(* value came from.                                                       *)
RowKinds == {"all", "none", "category", "brand", "name", "pair", "unknown", "short"}

Blank(k) == IF k % 2 = 0 THEN <<" ">> ELSE <<>>
CategoryCell(k) == <<"c">> \o ToDigits(k)
BrandCell(k) == <<" ", "b">> \o ToDigits(k)
\* quoted, with the delimiter inside: "p1,x"
NameCell(k) == <<"\"", "p">> \o ToDigits(k) \o <<",", "x", "\"">>
NameText(k) == <<"p">> \o ToDigits(k) \o <<",", "x">>

KindCells(kind, k) ==
    LET cat == IF kind \in {"all", "category", "pair", "short"}
               THEN CategoryCell(k) ELSE Blank(k)
        brand == IF kind \in {"all", "brand", "pair", "short"}
                 THEN BrandCell(k) ELSE Blank(k)
        name == IF kind \in {"all", "name", "short"} THEN NameCell(k)
                ELSE IF kind = "unknown" THEN UnknownProductName
                ELSE Blank(k)
    IN (ColCategory :> cat) @@ (ColBrand :> brand) @@ (ColProductName :> name)
       @@ (ColSku :> LongSku) @@ (ColCurrentStock :> <<"5">>)
       @@ (ColCurrentWeekSales :> <<"7">>)

\* Line k (1-based) of a text, of the given kind.  A short line has 33
\* columns, one too few, and its name cell is quoted like the others.
KindLine(kind, k) ==
    SheetLine(IF kind = "short" THEN MinRowLength ELSE NumCols - (k % 2),
              KindCells(kind, k))

FillTexts ==
    {TextOf([k \in 1..Len(kinds) |-> KindLine(kinds[k], k)]) :
        kinds \in SeqsUpTo(RowKinds, MaxRows)}


(* Ingestion, derivation: one data line, its numeric cells drawn.         *)
NumberTexts(n) == {ToDigits(k) : k \in 0..n}
StockTexts == NumberTexts(MaxStock) \cup
              {<<"7", "0">>, <<"8", "7">>, <<"4", "0", "0">>, <<"-", "5">>,
               <<"a", "b", "c">>, <<"1", "2", "a", "b", "c">>, <<>>}
SalesTexts == NumberTexts(MaxSales) \cup
              {<<"7", "0">>, <<"2", "9">>, <<"5", "0">>, <<"8", "0">>,
               <<"-", "3">>, <<"x">>}
LastSalesTexts == {<<"0">>, <<>>, <<"3">>, <<"4", "0">>, <<"5", "0">>, <<"-", "3">>}
ReorderTexts == {<<>>, <<"0">>, <<"1", "2">>, <<"1", "8">>, <<"2", "4">>, <<"1", "4", "0">>}
PaddingSku == <<"F", "B", "E", "W", "O", "D", "W", "0", "0", "1">>
ShortSku == <<"F", "B", "E">>
Midnights == {0, 1, 2, 3, NoMidnight}
Today1 == [y |-> 2026, m |-> 11, d |-> 1]

DeriveInput(stock, cws, lws, rp, code, start, mid) ==
    [text |-> TextOf(<<SheetLine(NumCols,
                  (ColProductName :> <<"p">>) @@ (ColSku :> code)
                  @@ (ColCurrentStock :> stock) @@ (ColCurrentWeekSales :> cws)
                  @@ (ColLastWeekSales :> lws) @@ (ColReorderPoint :> rp))>>),
     start |-> start, mid |-> mid]

DeriveInputs ==
    {DeriveInput(st, cw, <<"3">>, rp, LongSku, Today1, NoMidnight) :
        st \in StockTexts, cw \in SalesTexts, rp \in ReorderTexts}
    \cup
    {DeriveInput(<<"5">>, cw, lw, <<>>, LongSku, Today1, NoMidnight) :
        cw \in SalesTexts, lw \in LastSalesTexts}
    \cup
    {DeriveInput(sc[1], sc[2], <<"3">>, <<>>, code, start, mid) :
        sc \in {<<<<"7", "0">>, <<"7", "0">>>>, <<<<"5">>, <<"7">>>>,
                <<<<"4", "0", "0">>, <<"7">>>>, <<<<"-", "5">>, <<"7">>>>,
                <<<<"9">>, <<"0">>>>, <<<<"3", "6", "1">>, <<"7">>>>,
                <<<<"3", "6", "0">>, <<"7">>>>},
        code \in {ShortSku, LongSku, PaddingSku},
        start \in Dates, mid \in Midnights}

----------------------------------------------------------------------------
(* Specifications *)

\* The App before its first pass, nothing in flight.
AppStart ==
    /\ inventory = <<>>
    /\ orderedItems = <<>>
    /\ loading = TRUE
    /\ random = Draws

NoPass ==
    /\ csvText = <<>> /\ fetchOutcome = "ok"
    /\ now = Today1 /\ midnight = NoMidnight
    /\ refreshing = FALSE

\* The row scanner on every line of Lines.
InitParser ==
    /\ AppStart /\ NoPass
    /\ sku = <<>> /\ meta = NoMeta
    /\ row \in Lines /\ result = NoFields
    /\ pc = "parse"
NextParser == ParseRowStep
SpecParser == InitParser /\ [][NextParser]_vars

\* The SKU decoder on every code of Skus, in every month.
InitSku ==
    /\ AppStart
    /\ csvText = <<>> /\ fetchOutcome = "ok" /\ midnight = NoMidnight
    /\ refreshing = FALSE
    /\ row = <<>> /\ result = NoFields
    /\ sku \in Skus /\ meta = NoMeta
    /\ now \in MonthDates
    /\ pc = "decode"
NextSku == AnalyzeSkuStep
SpecSku == InitSku /\ [][NextSku]_vars

\* One ingestion pass whose fetch is in flight, over the forward-fill texts.
InitFill ==
    /\ AppStart
    /\ row = <<>> /\ result = NoFields /\ sku = <<>> /\ meta = NoMeta
    /\ csvText \in FillTexts
    /\ fetchOutcome = "ok" /\ now = Today1 /\ midnight = NoMidnight
    /\ refreshing = TRUE
    /\ pc = "fetching"
NextFill == FetchSettles
SpecFill == InitFill /\ [][NextFill]_vars

\* One ingestion pass whose fetch is in flight, over the derivation inputs.
InitDerive ==
    /\ AppStart
    /\ row = <<>> /\ result = NoFields /\ sku = <<>> /\ meta = NoMeta
    /\ \E in \in DeriveInputs :
         csvText = in.text /\ now = in.start /\ midnight = in.mid
    /\ fetchOutcome = "ok"
    /\ refreshing = TRUE
    /\ pc = "fetching"
NextDerive == FetchSettles
SpecDerive == InitDerive /\ [][NextDerive]_vars

\* The App: passes one after the other, and toggles in between.
AppTexts ==
    {TextOf([k \in 1..Len(kinds) |-> KindLine(kinds[k], k)]) :
        kinds \in SeqsUpTo({"all", "none", "unknown"}, 2)}
AppIds == {<<"r", "o", "w", "-">> \o ToDigits(k) : k \in 0..1}

Init ==
    /\ AppStart /\ NoPass
    /\ row = <<>> /\ result = NoFields /\ sku = <<>> /\ meta = NoMeta
    /\ pc = "idle"

Next ==
    \/ \E outcome \in {"ok", "notOk", "reject"}, text \in AppTexts :
          LoadData(outcome, text, Today1, NoMidnight, Draws)
    \/ FetchSettles
    \/ \E id \in AppIds :
          (\E k \in 1..Len(inventory) : inventory[k].id = id) /\ ToggleOrder(id)

Spec == Init /\ [][Next]_vars

(* The actioned list of App: a list saved by an earlier session, passes of
   both origins, and toggles on the listed records. *)
Row0 == <<"r", "o", "w", "-", "0">>
Row1 == <<"r", "o", "w", "-", "1">>
Mock1 == <<"m", "o", "c", "k", "-", "1">>
Stale9 == <<"s", "k", "u", "-", "9">>

\* What localStorage holds under ordered_items_v1 when App mounts.
SavedLists == {<<>>, <<Row1, Mock1>>, <<Stale9, Row0, Row1>>}
ToggleIds == {Row0, Row1, Mock1}
ToggleText == TextOf(<<KindLine("all", 1), KindLine("all", 2)>>)

InitToggle ==
    /\ inventory = <<>> /\ loading = TRUE /\ random = Draws
    /\ orderedItems \in SavedLists
    /\ NoPass
    /\ row = <<>> /\ result = NoFields /\ sku = <<>> /\ meta = NoMeta
    /\ pc = "idle"

NextToggle ==
    \/ \E outcome \in {"ok", "reject"} :
          LoadData(outcome, ToggleText, Today1, NoMidnight, Draws)
    \/ FetchSettles
    \/ \E id \in ToggleIds :
          (\E k \in 1..Len(inventory) : inventory[k].id = id) /\ ToggleOrder(id)

SpecToggle == InitToggle /\ [][NextToggle]_vars

(* The views of App over record sets of both origins. *)
MaxViewRows == 24       \* data lines of the long text (more than a top slice)

March15 == [y |-> 2026, m |-> 3, d |-> 15]

OuterSkuLower == <<"F", "B", "E", "A", "0", "c", "t", "9">>
OuterSku == <<"F", "B", "E", "O", "0", "J", "K">>
GeneralSku == <<"F", "B", "E", "C", "0", "T", "S">>
PaddingSkuDV == <<"F", "B", "E", "W", "0", "D", "V">>

\* A full line with a name, a sku and the three numbers as texts.
ViewLine(k, code, stock, cws, rp) ==
    SheetLine(NumCols,
        (ColProductName :> (<<"n">> \o ToDigits(k))) @@ (ColSku :> code)
        @@ (ColCurrentStock :> stock) @@ (ColCurrentWeekSales :> cws)
        @@ (ColReorderPoint :> rp) @@ (ColLastWeekSales :> <<"3">>))

\* Six records: out of season in November, ties in sales and in score,
\* no sales, a negative stock, each item type.
MixedText ==
    TextOf(<<ViewLine(1, LongSku, <<"5">>, <<"7">>, <<>>),
             ViewLine(2, PaddingSku, <<"0">>, <<"9">>, <<>>),
             ViewLine(3, OuterSkuLower, <<"3">>, <<"9">>, <<"2">>),
             ViewLine(4, ShortSku, <<"4", "0">>, <<"0">>, <<>>),
             ViewLine(5, GeneralSku, <<"0">>, <<"9">>, <<>>),
             ViewLine(6, OuterSku, <<"-", "5">>, <<"4">>, <<>>)>>)

\* Skus of season A with every sub-category code of the two tables, in
\* either case, and two codes of neither.
ViewSkus ==
    [k \in 1..12 |->
        <<"F", "B", "E", "A", "0">> \o
        <<<<"D", "W">>, <<"d", "v">>, <<"C", "T">>, <<"j", "p">>, <<"J", "K">>,
          <<"W", "B">>, <<"t", "J">>, <<"V", "T">>, <<"A", "r">>, <<"C", "D">>,
          <<"T", "S">>, <<"W", "D">>>>[k] \o <<"0", "1">>]

\* MaxViewRows records whose sales and stock repeat with different periods.
LongText ==
    TextOf([k \in 1..MaxViewRows |->
        ViewLine(k, ViewSkus[((k - 1) % Len(ViewSkus)) + 1],
                 ToDigits(k % 4), ToDigits((k * 3) % 11), <<>>)])

DrawsVaried ==
    <<[cSales |-> 60, lSales |-> 40, stock |-> 50, inProd |-> 3],
      [cSales |-> 100, lSales |-> 60, stock |-> 0, inProd |-> 20],
      [cSales |-> 219, lSales |-> 140, stock |-> 30, inProd |-> 39],
      [cSales |-> 29, lSales |-> 29, stock |-> 87, inProd |-> 7],
      [cSales |-> 35, lSales |-> 21, stock |-> 24, inProd |-> 1],
      [cSales |-> 35, lSales |-> 48, stock |-> 24, inProd |-> 12],
      [cSales |-> 20, lSales |-> 12, stock |-> 99, inProd |-> 0]>>

ViewInputs ==
    {[outcome |-> "ok", text |-> t, start |-> d, draws |-> Draws] :
        t \in {MixedText, LongText, TextOf(<<>>)}, d \in {Today1, March15}}
    \cup
    {[outcome |-> "reject", text |-> <<>>, start |-> Today1, draws |-> Draws],
     [outcome |-> "reject", text |-> <<>>, start |-> March15, draws |-> DrawsVaried],
     [outcome |-> "notOk", text |-> MixedText, start |-> Today1, draws |-> DrawsVaried],
     [outcome |-> "bodyFails", text |-> <<>>, start |-> March15, draws |-> Draws]}

ViewIds == {<<"r", "o", "w", "-", "0">>, <<"r", "o", "w", "-", "1">>,
            <<"r", "o", "w", "-", "2">>, <<"r", "o", "w", "-", "4">>,
            <<"m", "o", "c", "k", "-", "1">>, <<"m", "o", "c", "k", "-", "8">>}

\* The first pass of App in flight; a toggle on a listed record (the
\* buttons of lines 190 and 359) and a render at any time.
InitViews ==
    /\ inventory = <<>> /\ orderedItems = <<>> /\ loading = TRUE
    /\ row = <<>> /\ result = NoFields /\ sku = <<>> /\ meta = NoMeta
    /\ \E in \in ViewInputs :
         /\ fetchOutcome = in.outcome /\ csvText = in.text
         /\ now = in.start /\ random = in.draws
    /\ midnight = NoMidnight
    /\ refreshing = TRUE
    /\ pc = "fetching"
NextViews ==
    \/ FetchSettles
    \/ \E id \in ViewIds :
          (\E k \in 1..Len(inventory) : inventory[k].id = id) /\ ToggleOrder(id)
    \/ RenderViews
SpecViews == InitViews /\ [][NextViews]_vars

----------------------------------------------------------------------------
(* Properties *)

\* The items of the inventory, as a set of positions.
Items == 1..Len(inventory)

\* The pass of the state has settled.
Settled == pc = "idle" /\ ~refreshing /\ ~loading

\* --- the parser, stated over the line without the scanner's state ---

\* The number of quote characters before position i is odd.
InsideQuotes(line, i) ==
    Cardinality({j \in 1..(i - 1) : line[j] = "\""}) % 2 = 1

\* The positions of the commas that stand outside quotes.
UnquotedCommas(line) ==
    {i \in 1..Len(line) : line[i] = "," /\ ~InsideQuotes(line, i)}

\* The k-th cut of the line: 0, the unquoted commas in order, Len + 1.
CutAt(line, k) ==
    IF k = 0 THEN 0
    ELSE IF k > Cardinality(UnquotedCommas(line)) THEN Len(line) + 1
    ELSE CHOOSE i \in UnquotedCommas(line) :
            Cardinality({j \in UnquotedCommas(line) : j < i}) = k - 1

\* The text of field k: what lies between cut k-1 and cut k, quotes left out.
FieldText(line, k) ==
    SelectSeq(SubSeq(line, CutAt(line, k - 1) + 1, CutAt(line, k) - 1),
              LAMBDA c : c # "\"")

AcmeLine == <<"\"", "A", "c", "m", "e", ",", " ", "I", "n", "c", "\"">>
AcmeField == <<"A", "c", "m", "e", ",", " ", "I", "n", "c">>

\* C5: the scanner returns 1 + (number of commas outside quotes) fields;
\* field k is the trimmed text between the k-1st and k-th such comma with
\* the quote characters left out, so no field holds a quote and a comma
\* inside quotes stays in its field; "Acme, Inc" in quotes is one field.
C5_ParserFields ==
    pc = "parsed" =>
        /\ Len(result) = 1 + Cardinality(UnquotedCommas(row))
        /\ \A k \in 1..Len(result) :
              /\ result[k] = Trim(FieldText(row, k))
              /\ \A j \in 1..Len(result[k]) : result[k][j] # "\""
              /\ result[k] # <<>> =>
                    result[k][1] # " " /\ result[k][Len(result[k])] # " "
        /\ row = AcmeLine => result = <<AcmeField>>

C5_Witness ==
    pc = "parsed" /\ row = AcmeLine /\ result = <<AcmeField>>

\* --- SKU decoding ---

\* C6: a sku shorter than 7 characters decodes to the general type, lead
\* time 14 and seasonal fit, whatever the month.
C6_ShortSkuFallback ==
    (pc = "decoded" /\ Len(sku) < 7) =>
        /\ meta.type = <<"uC77C", "uBC18">>
        /\ meta.leadTime = 14
        /\ meta.isSeasonalFit = TRUE

\* A 6-character sku with season code S, decoded in November (S is then
\* out of season for a full-length sku).
C6_Witness ==
    /\ pc = "decoded" /\ Len(sku) = 6 /\ sku[4] = "S" /\ now.m = 11
    /\ meta.isSeasonalFit /\ meta.leadTime = 14

\* The claim's table: the months in which a season code is fit.
FitMonths(c) ==
    IF c \in {"A", "a", "C", "c", "O", "o"} THEN 1..12
    ELSE IF c \in {"S", "s"} THEN {2, 3, 4}
    ELSE IF c \in {"U", "u"} THEN {5, 6, 7}
    ELSE IF c \in {"F", "f"} THEN {8, 9, 10}
    ELSE IF c \in {"W", "w"} THEN {11, 12, 1}
    ELSE {}

\* C7: for a sku of 7 or more characters the seasonal fit is decided by
\* the character at index 3 (either case) and the month: A, C, O always,
\* S in 2-4, U in 5-7, F in 8-10, W in 11, 12, 1, anything else never; so
\* in every month exactly one of S, U, F, W is fit.
C7_SeasonalFit ==
    (pc = "decoded" /\ Len(sku) >= 7) =>
        /\ meta.isSeasonalFit = (now.m \in FitMonths(sku[4]))
        /\ Cardinality({c \in {"S", "U", "F", "W"} : now.m \in FitMonths(c)}) = 1
        /\ Cardinality(CurrentSeasonCodes(now.m) \cap {"S", "U", "F", "W"}) = 1

\* Season code S in March: fit.
C7_Witness ==
    /\ pc = "decoded" /\ Len(sku) >= 7 /\ sku[4] = "S" /\ now.m = 3
    /\ meta.isSeasonalFit

\* --- derived fields of ingested records ---

\* C2: status is Critical when currentStock <= reorderPoint / 2 or the
\* horizon <= 10, else Warning when currentStock <= reorderPoint or the
\* horizon <= 20, else Safe; currentStock = reorderPoint (not Critical) is
\* Warning and currentStock = reorderPoint / 2 is Critical.
C2_StatusClassification ==
    Settled => \A k \in Items :
        LET it == inventory[k]
            horizon == DaysToStockOut(it.currentStock, it.currentWeekSales)
            critical == 2 * it.currentStock <= it.reorderPoint \/ horizon <= 10
            warning == it.currentStock <= it.reorderPoint \/ horizon <= 20
        IN /\ (it.status = "Critical") = critical
           /\ (it.status = "Warning") = (~critical /\ warning)
           /\ (it.status = "Safe") = (~critical /\ ~warning)
           /\ (it.currentStock = it.reorderPoint /\ ~critical) => it.status = "Warning"
           /\ 2 * it.currentStock = it.reorderPoint => it.status = "Critical"

\* currentStock = reorderPoint = 12 with a far horizon: Warning.
C2_Witness ==
    Settled /\ \E k \in Items :
        /\ inventory[k].currentStock = 12 /\ inventory[k].reorderPoint = 12
        /\ inventory[k].currentWeekSales = 1
        /\ inventory[k].status = "Warning"

\* C3: no ingested record has a negative currentStock, currentWeekSales or
\* lastWeekSales.
C3_CountsNonNegative ==
    Settled => \A k \in Items :
        /\ inventory[k].currentStock >= 0
        /\ inventory[k].currentWeekSales >= 0
        /\ inventory[k].lastWeekSales >= 0

\* C8: salesGrowth is 100 or 0 when lastWeekSales = 0 (as currentWeekSales
\* is positive or not) and 100 * (current - last) / last otherwise;
\* (50, 0) gives 100, (0, 0) gives 0, (80, 40) gives 100; the divisor is
\* never 0.
C8_SalesGrowth ==
    Settled => \A k \in Items :
        LET it == inventory[k]
            g == it.salesGrowth
        IN /\ g.den # 0
           /\ it.lastWeekSales = 0 =>
                 g.num = g.den * (IF it.currentWeekSales > 0 THEN 100 ELSE 0)
           /\ it.lastWeekSales # 0 =>
                 g.num * it.lastWeekSales
                     = 100 * (it.currentWeekSales - it.lastWeekSales) * g.den
           /\ (it.currentWeekSales = 50 /\ it.lastWeekSales = 0) => g.num = 100 * g.den
           /\ (it.currentWeekSales = 0 /\ it.lastWeekSales = 0) => g.num = 0
           /\ (it.currentWeekSales = 80 /\ it.lastWeekSales = 40) => g.num = 100 * g.den

C8_Witness ==
    Settled /\ \E k \in Items :
        /\ inventory[k].currentWeekSales = 80 /\ inventory[k].lastWeekSales = 40
        /\ inventory[k].salesGrowth.num = 100 * inventory[k].salesGrowth.den

\* C9: the horizon of a record is floor(currentStock / (currentWeekSales / 7))
\* when currentWeekSales / 7 > 0 and 365 otherwise; stock 70 with sales 70
\* gives 7 and the record is Critical.
C9_StockOutHorizon ==
    Settled => \A k \in Items :
        LET it == inventory[k]
            horizon == DaysToStockOut(it.currentStock, it.currentWeekSales)
        IN /\ it.currentWeekSales > 0 =>
                 horizon = (7 * it.currentStock) \div it.currentWeekSales
           /\ it.currentWeekSales <= 0 => horizon = 365
           /\ (it.currentStock = 70 /\ it.currentWeekSales = 70) =>
                 horizon = 7 /\ it.status = "Critical"

\* --- forward fill and the final filter ---

\* The data rows of the pass's text (the header line left out) and those
\* of them with at least 34 fields, in order.
DataRows == LET rows == ParseCsv(csvText) IN SubSeq(rows, 2, Len(rows))
RetainedRows == SelectSeq(DataRows, LAMBDA r : Len(r) >= 34)

\* The id the record of the j-th retained row (from 1) bears.
IdOfRetained(j) == <<"r", "o", "w", "-">> \o ToDigits(j - 1)

\* The retained rows up to the j-th whose column col is non-blank.
Suppliers(rows, j, col) == {i \in 1..j : rows[i][col + 1] # <<>>}

\* The largest element of a non-empty set of numbers.
Latest(S) == CHOOSE i \in S : \A h \in S : h <= i

\* C1: the record of a retained row carries, for category (column 1),
\* brand (column 2) and productName (column 12), the row's own trimmed
\* value when that is non-blank and otherwise the value of the nearest
\* preceding retained row whose field is non-blank.
C1_ForwardFill ==
    Settled =>
        LET rows == RetainedRows
            Carried(it, col) == IF col = 1 THEN it.category
                                ELSE IF col = 2 THEN it.brand
                                ELSE it.productName
        IN \A k \in Items :
              \E j \in 1..Len(rows) :
                 /\ inventory[k].id = IdOfRetained(j)
                 /\ \A col \in {1, 2, 12} :
                       LET own == rows[j][col + 1]
                           before == Suppliers(rows, j - 1, col)
                       IN /\ own # <<>> => Carried(inventory[k], col) = own
                          /\ (own = <<>> /\ before # {}) =>
                                Carried(inventory[k], col)
                                    = rows[Latest(before)][col + 1]

\* Three data lines: a full one, one of 33 fields, one with the three
\* cells blank; the record of the third carries the values of the first.
C1_Witness ==
    /\ Settled
    /\ Len(DataRows) = 3 /\ Len(RetainedRows) = 2
    /\ RetainedRows[2][2] = <<>> /\ RetainedRows[2][3] = <<>>
    /\ RetainedRows[2][13] = <<>>
    /\ Len(inventory) = 2
    /\ inventory[2].id = <<"r", "o", "w", "-", "1">>
    /\ inventory[2].category = <<"c", "1">>
    /\ inventory[2].brand = <<"b", "1">>
    /\ inventory[2].productName = <<"p", "1", ",", "x">>

\* C4: every record has a non-blank productName; a retained row with a
\* blank product name that no earlier retained row supplied produces no
\* record, and every other retained row produces exactly one.
C4_NamedRowsKept ==
    Settled =>
        LET rows == RetainedRows
        IN /\ \A k \in Items : inventory[k].productName # <<>>
           /\ \A j \in 1..Len(rows) :
                 Cardinality({k \in Items : inventory[k].id = IdOfRetained(j)})
                     = IF Suppliers(rows, j, 12) = {} THEN 0 ELSE 1

\* --- forecast dates ---

\* Days from 2000-01-01 to the date.
DayNumber(date) ==
    LET y == date.y
        leap == (y % 4 = 0 /\ y % 100 # 0) \/ y % 400 = 0
        leapsBefore == ((y - 1) \div 4) - ((y - 1) \div 100) + ((y - 1) \div 400) - 484
        before == <<0, 31, 59, 90, 120, 151, 181, 212, 243, 273, 304, 334>>
    IN 365 * (y - 2000) + leapsBefore + before[date.m]
           + (IF leap /\ date.m > 2 THEN 1 ELSE 0) + date.d - 1

\* The date a "Y. M. D." text names.
DateOfText(text) ==
    LET dots == {i \in 1..Len(text) : text[i] = "."}
        first == CHOOSE i \in dots : \A h \in dots : i <= h
        last == CHOOSE i \in dots : \A h \in dots : h <= i
        second == CHOOSE i \in dots : i # first /\ i # last
    IN [y |-> ParseInt(SubSeq(text, 1, first - 1))[1],
        m |-> ParseInt(SubSeq(text, first + 2, second - 1))[1],
        d |-> ParseInt(SubSeq(text, second + 2, last - 1))[1]]

\* The text names a day of the calendar.
IsDateText(text) ==
    /\ Cardinality({i \in 1..Len(text) : text[i] = "."}) = 3
    /\ DateOfText(text).m \in 1..12
    /\ DateOfText(text).d \in 1..DaysInMonth(DateOfText(text).y, DateOfText(text).m)

\* C10: expectedStockOutDate is the stable label exactly when the horizon
\* exceeds 360 and otherwise the day today + horizon; suggestedOrderDate is
\* its label exactly when expectedStockOutDate is, and otherwise the day
\* leadTimeDays before expectedStockOutDate.  today is what line 94 reads.
C10_ForecastDates ==
    Settled => \A k \in Items :
        LET it == inventory[k]
            horizon == DaysToStockOut(it.currentStock, it.currentWeekSales)
            today == Clock(now, midnight, 3 * (k - 1) + 1)
        IN /\ (it.expectedStockOutDate = StableLabel) = (horizon > 360)
           /\ (it.suggestedOrderDate = NotApplicableLabel)
                 = (it.expectedStockOutDate = StableLabel)
           /\ horizon <= 360 =>
                 /\ IsDateText(it.expectedStockOutDate)
                 /\ IsDateText(it.suggestedOrderDate)
                 /\ DayNumber(DateOfText(it.expectedStockOutDate))
                       = DayNumber(today) + horizon
                 /\ DayNumber(DateOfText(it.suggestedOrderDate))
                       = DayNumber(DateOfText(it.expectedStockOutDate))
                             - it.leadTimeDays

\* --- the views of App ---

\* The urgentReorders and topSellers of the state.
UrgentView == UrgentReordersRun(inventory, orderedItems).view
TopView == TopSellersRun(inventory).view

\* The positions of the records that qualify for an urgent reorder.
Qualifying ==
    {k \in Items : /\ inventory[k].currentWeekSales > 0
                   /\ inventory[k].isSeasonalFit
                   /\ \A h \in 1..Len(orderedItems) : orderedItems[h] # inventory[k].id}

\* a scores less than b, for records with positive sales: by the squares
\* of the scores, sales^3 * m^2 / (stock + 0.5)^2 with m = 1.5 or 1, cross
\* multiplied where the products are small.
ScoresLess(a, b) ==
    LET da == 2 * a.currentStock + 1
        db == 2 * b.currentStock + 1
        na == a.currentWeekSales * a.currentWeekSales * a.currentWeekSales
                  * (IF a.isSeasonalFit THEN 9 ELSE 4)
        nb == b.currentWeekSales * b.currentWeekSales * b.currentWeekSales
                  * (IF b.isSeasonalFit THEN 9 ELSE 4)
        small(x) == x.currentWeekSales <= 12 /\ x.currentStock <= 50
    IN IF da < 0 /\ db > 0 THEN TRUE
       ELSE IF da > 0 /\ db < 0 THEN FALSE
       ELSE IF small(a) /\ small(b)
            THEN (IF da > 0 THEN na * db * db < nb * da * da
                  ELSE na * db * db > nb * da * da)
            ELSE (IF da > 0 THEN FracLess(na, da * da, nb, db * db)
                  ELSE FracLess(nb, db * db, na, da * da))

\* C11: urgentReorders holds only records with currentWeekSales > 0,
\* isSeasonalFit and an id that is not actioned; it is in non-increasing
\* order of score; it holds min(20, number of qualifying records) distinct
\* qualifying records, and no qualifying record left out scores higher
\* than one it holds.
C11_UrgentRanking ==
    \A view \in {UrgentView} :
    LET held == {k \in Qualifying : \E p \in 1..Len(view) : view[p] = inventory[k]}
    IN /\ \A p \in 1..Len(view) : \E k \in Qualifying : view[p] = inventory[k]
       /\ \A p \in 1..(Len(view) - 1) : ~ScoresLess(view[p], view[p + 1])
       /\ Len(view) = (IF Cardinality(Qualifying) < 20
                       THEN Cardinality(Qualifying) ELSE 20)
       /\ Cardinality(held) = Len(view)
       /\ \A k \in Qualifying \ held :
             \A p \in 1..Len(view) : ~ScoresLess(view[p], inventory[k])

\* 50 records of which more than 20 qualify, one of the qualifying ones
\* actioned, and records of different scores in the view.
C11_Witness ==
    /\ Settled /\ Len(inventory) = 50
    /\ Cardinality(Qualifying) > 20 /\ Len(UrgentView) = 20
    /\ orderedItems = <<inventory[2].id>>
    /\ inventory[2].currentWeekSales > 0 /\ inventory[2].isSeasonalFit
    /\ ScoresLess(UrgentView[20], UrgentView[1])

\* The position in the inventory of a record of a view.
PlaceOf(item) == CHOOSE k \in Items : inventory[k] = item

\* C12: computing the urgency ranking leaves the record sequence and the
\* actioned ids as they were, so that computing it again on what the first
\* computation left gives the same records in the same order; records of
\* equal score stand in the view in their input order.
C12_RankingStable ==
    \A run \in {UrgentReordersRun(inventory, orderedItems)} :
       /\ run.inventory = inventory
       /\ run.orderedItems = orderedItems
       /\ UrgentReordersRun(run.inventory, run.orderedItems).view = run.view
       /\ \A p, q \in 1..Len(run.view) :
             (p < q /\ ~ScoresLess(run.view[p], run.view[q])
                    /\ ~ScoresLess(run.view[q], run.view[p]))
                => PlaceOf(run.view[p]) < PlaceOf(run.view[q])

\* Two records of equal score (stock 0, sales 9) in the view, and a record
\* of another score.
C12_Witness ==
    /\ Settled /\ Len(inventory) = 6 /\ Len(UrgentView) >= 3
    /\ UrgentView[1] = inventory[2] /\ UrgentView[2] = inventory[5]
    /\ inventory[2].currentStock = inventory[5].currentStock
    /\ inventory[2].currentWeekSales = inventory[5].currentWeekSales
    /\ ScoresLess(UrgentView[3], UrgentView[2])

\* --- the synthetic record set ---

\* The record is one of generateMockData's.
IsSynthetic(item) == SubSeq(item.id, 1, 5) = <<"m", "o", "c", "k", "-">>

\* C13: the status of every synthetic record is the classification of its
\* own currentStock, reorderPoint and stock-out horizon: Critical if
\* currentStock <= reorderPoint / 2 or horizon <= 10, else Warning if
\* currentStock <= reorderPoint or horizon <= 20, else Safe.
C13_SyntheticStatus ==
    \A k \in Items :
        IsSynthetic(inventory[k]) =>
            LET it == inventory[k]
                horizon == DaysToStockOut(it.currentStock, it.currentWeekSales)
            IN it.status =
                 (IF 2 * it.currentStock <= it.reorderPoint \/ horizon <= 10
                  THEN "Critical"
                  ELSE IF it.currentStock <= it.reorderPoint \/ horizon <= 20
                  THEN "Warning"
                  ELSE "Safe")

\* C14: a pass settles with a record set: the 50 synthetic records
\* mock-0 .. mock-49 when the fetch rejects, the response is not OK or
\* reading it fails, and the reconstructed records of the text (possibly
\* none) when acquisition succeeds.
C14_FallbackOnFailure ==
    Settled =>
          IF fetchOutcome = "ok"
          THEN /\ Len(inventory) <= Len(RetainedRows)
               /\ \A k \in Items :
                     \E j \in 1..Len(RetainedRows) : inventory[k].id = IdOfRetained(j)
          ELSE /\ Len(inventory) = 50
               /\ \A k \in Items :
                     inventory[k].id = <<"m", "o", "c", "k", "-">> \o ToDigits(k - 1)

\* The response is not OK: 50 synthetic records, although its text parses.
C14_Witness ==
    /\ Settled /\ fetchOutcome = "notOk" /\ Len(RetainedRows) = 6
    /\ Len(inventory) = 50
    /\ inventory[1].id = <<"m", "o", "c", "k", "-", "0">>
    /\ inventory[50].id = <<"m", "o", "c", "k", "-", "4", "9">>

\* --- lead time ---

\* C15: leadTimeDays and itemType of every record follow from the sku
\* alone: for a sku of 7 or more characters, padding and 50 when
\* characters 5-6 are DW or DV in either case, outer and 35 when they are
\* CT, JP, JK, WB, TJ, VT, AR or CD, general and 21 otherwise; 14 for a
\* shorter sku; so leadTimeDays is one of 14, 21, 35, 50.
C15_LeadTimeBySku ==
    \A k \in Items :
        LET it == inventory[k]
            sub == IF Len(it.sku) >= 7 THEN ToUpperCase(SubSeq(it.sku, 6, 7)) ELSE <<>>
        IN /\ it.leadTimeDays \in {14, 21, 35, 50}
           /\ Len(it.sku) < 7 => it.leadTimeDays = 14
           /\ Len(it.sku) >= 7 =>
                 IF sub \in {<<"D", "W">>, <<"D", "V">>}
                 THEN it.leadTimeDays = 50 /\ it.itemType = <<"uD328", "uB529">>
                 ELSE IF sub \in {<<"C", "T">>, <<"J", "P">>, <<"J", "K">>, <<"W", "B">>,
                                  <<"T", "J">>, <<"V", "T">>, <<"A", "R">>, <<"C", "D">>}
                 THEN it.leadTimeDays = 35
                      /\ it.itemType = <<"uC544", "uC6B0", "uD130">>
                 ELSE it.leadTimeDays = 21 /\ it.itemType = <<"uC77C", "uBC18">>

\* Ingested records of all four lead times, one from a lower-case code.
C15_Witness ==
    /\ Settled /\ Len(inventory) = 6
    /\ inventory[1].leadTimeDays = 21 /\ inventory[2].leadTimeDays = 50
    /\ inventory[3].leadTimeDays = 35 /\ SubSeq(inventory[3].sku, 6, 7) = <<"c", "t">>
    /\ inventory[4].leadTimeDays = 14 /\ Len(inventory[4].sku) = 3

\* --- aggregate stats ---

\* The sum of v * (number of records with currentWeekSales = v) over the
\* values v of S.
RECURSIVE SalesOfValues(_)
SalesOfValues(S) ==
    IF S = {} THEN 0
    ELSE LET v == CHOOSE x \in S : TRUE
         IN v * Cardinality({k \in Items : inventory[k].currentWeekSales = v})
                + SalesOfValues(S \ {v})

\* C16: the stats give the number of records, the critical count equal to
\* the number of records whose status is Critical, the total weekly sales
\* equal to the sum of currentWeekSales, and the action-completed count
\* equal to the number of actioned records.
C16_AggregateStats ==
    \A stats \in {Stats(inventory, orderedItems)} :
       /\ stats.total = Len(inventory)
       /\ stats.critical
             = Cardinality({k \in Items : inventory[k].status = "Critical"})
       /\ stats.totalWeeklySales
             = SalesOfValues({inventory[k].currentWeekSales : k \in Items})
       /\ stats.orderedCount
             = Cardinality({k \in Items :
                   \E h \in 1..Len(orderedItems) : orderedItems[h] = inventory[k].id})

\* The same with the critical count and the action-completed count left out.
C16_TotalsOnly ==
    \A stats \in {Stats(inventory, orderedItems)} :
       /\ stats.total = Len(inventory)
       /\ stats.totalWeeklySales
             = SalesOfValues({inventory[k].currentWeekSales : k \in Items})

\* The critical count alone, while no Critical record is actioned.
C16_CriticalUnactioned ==
    (\A k \in Items : inventory[k].status = "Critical" =>
         \A h \in 1..Len(orderedItems) : orderedItems[h] # inventory[k].id)
    => Stats(inventory, orderedItems).critical
           = Cardinality({k \in Items : inventory[k].status = "Critical"})

\* --- best sellers ---

\* C17: topSellers holds min(20, n) records of the n of the inventory, in
\* non-increasing order of currentWeekSales; no record left out has more
\* currentWeekSales than one it holds; computing it leaves the inventory
\* in its order and content.
C17_BestSellers ==
    \A run \in {TopSellersRun(inventory)} :
    LET view == run.view
        held == {k \in Items : \E p \in 1..Len(view) : view[p] = inventory[k]}
    IN /\ Len(view) = (IF Len(inventory) < 20 THEN Len(inventory) ELSE 20)
       /\ Cardinality(held) = Len(view)
       /\ \A p \in 1..(Len(view) - 1) :
             view[p].currentWeekSales >= view[p + 1].currentWeekSales
       /\ \A k \in Items \ held : \A p \in 1..Len(view) :
             inventory[k].currentWeekSales <= view[p].currentWeekSales
       /\ run.inventory = inventory

\* 50 records that are not in order of sales, the first 20 of them held.
C17_Witness ==
    /\ Settled /\ Len(inventory) = 50 /\ Len(TopView) = 20
    /\ inventory[1].currentWeekSales < inventory[2].currentWeekSales
    /\ TopView[1].currentWeekSales > TopView[20].currentWeekSales
    /\ TopSellersRun(inventory).inventory = inventory

\* --- short rows ---

\* The text with every line after the first that has fewer than 34 fields
\* taken out.
WithoutShortLines(text) ==
    LET lines == SplitLines(text)
    IN JoinLines(<<lines[1]>> \o
                 SelectSeq(SubSeq(lines, 2, Len(lines)),
                           LAMBDA l : Len(ParseRow(l)) >= 34))

\* C18: every line of the text becomes a row; a row of fewer than 34
\* fields gives no record and leaves the held values alone, so the records
\* of a pass, ids included, are those of the text without its short lines.
C18_ShortRowsDropped ==
    Settled =>
        /\ Len(ParseCsv(csvText))
              = 1 + Cardinality({i \in 1..Len(csvText) : csvText[i] = "\n"})
        /\ Len(inventory) <= Len(RetainedRows)
        /\ inventory = Reconstruct(WithoutShortLines(csvText), now, midnight)

\* A 33-field line with its three cells filled, then a line with them
\* blank, then a full line: one record, the second retained row's.
C18_Witness ==
    /\ Settled /\ Len(DataRows) = 3
    /\ Len(DataRows[1]) = 33 /\ DataRows[1][13] = <<"p", "1", ",", "x">>
    /\ Len(DataRows[2]) >= 34 /\ DataRows[2][13] = <<>>
    /\ Len(inventory) = 1
    /\ inventory[1].id = <<"r", "o", "w", "-", "1">>
    /\ inventory[1].productName = <<"p", "3", ",", "x">>

\* --- numeric cells ---

DecimalDigits == {"0", "1", "2", "3", "4", "5", "6", "7", "8", "9"}

\* The text is a decimal integer: an optional minus sign and digits only.
IsIntegerText(t) ==
    LET body == IF t # <<>> /\ t[1] = "-" THEN Tail(t) ELSE t
    IN body # <<>> /\ \A i \in 1..Len(body) : body[i] \in DecimalDigits

\* The number a decimal integer text names.
RECURSIVE NaturalOfText(_)
NaturalOfText(t) ==
    IF t = <<>> THEN 0
    ELSE 10 * NaturalOfText(SubSeq(t, 1, Len(t) - 1))
           + (CHOOSE d \in 0..9 : ToDigits(d) = <<t[Len(t)]>>)
IntegerOfText(t) ==
    IF t[1] = "-" THEN 0 - NaturalOfText(Tail(t)) ELSE NaturalOfText(t)

\* The text has no number at its start: it is blank or starts with a
\* character that is neither a digit nor a sign.
IsNonNumericText(t) == t = <<>> \/ t[1] \notin (DecimalDigits \cup {"-", "+"})

\* What the claim gives for a cell: its integer, or the fallback when it
\* is non-numeric (a cell that only starts with a number is left open).
CellYields(t, value, fallback) ==
    /\ IsIntegerText(t) => value = IntegerOfText(t)
    /\ IsNonNumericText(t) => value = fallback

\* C19: a numeric cell that holds a valid integer yields that integer, and
\* one that is non-numeric or absent yields the fallback: 0 for
\* currentStock, inProductionStock, currentWeekSales, lastWeekSales and
\* unitCost, 10 for reorderPoint, 5 for safetyStock.
C19_NumericDefaults ==
    Settled => \A k \in Items :
        LET it == inventory[k]
            cells == RetainedRows[k]
        IN /\ CellYields(cells[34], it.currentStock, 0)
           /\ CellYields(IF Len(cells) >= 35 THEN cells[35] ELSE <<>>,
                         it.inProductionStock, 0)
           /\ CellYields(cells[23], it.currentWeekSales, 0)
           /\ CellYields(cells[22], it.lastWeekSales, 0)
           /\ CellYields(cells[11], it.unitCost, 0)
           /\ CellYields(cells[8], it.reorderPoint, 10)
           /\ CellYields(cells[7], it.safetyStock, 5)

\* The same without the reorderPoint cell.
C19_ZeroDefaults ==
    Settled => \A k \in Items :
        LET it == inventory[k]
            cells == RetainedRows[k]
        IN /\ CellYields(cells[34], it.currentStock, 0)
           /\ CellYields(cells[23], it.currentWeekSales, 0)
           /\ CellYields(cells[22], it.lastWeekSales, 0)
           /\ CellYields(cells[11], it.unitCost, 0)
           /\ CellYields(cells[7], it.safetyStock, 5)

\* --- independence of passes ---

\* C20: the held product name, brand and category are empty when a pass
\* starts: whatever passes came before, a record's three values come from
\* the text of its own pass (the row's cell or that of the nearest
\* retained row above it), the label stands where the text supplies no
\* category or brand, and no record where it supplies no product name.
C20_PassesIndependent ==
    (Settled /\ fetchOutcome = "ok") =>
        \A rows \in {RetainedRows} :
           /\ \A k \in Items : \E j \in 1..Len(rows) :
                 /\ inventory[k].id = IdOfRetained(j)
                 /\ Suppliers(rows, j, 12) # {}
                 /\ inventory[k].productName = rows[Latest(Suppliers(rows, j, 12))][13]
                 /\ inventory[k].category =
                       IF Suppliers(rows, j, 1) = {} THEN <<"uAE30", "uD0C0">>
                       ELSE rows[Latest(Suppliers(rows, j, 1))][2]
                 /\ inventory[k].brand =
                       IF Suppliers(rows, j, 2) = {} THEN <<"uBE0C", "uB79C", "uB4DC">>
                       ELSE rows[Latest(Suppliers(rows, j, 2))][3]
           /\ \A j \in 1..Len(rows) :
                 Suppliers(rows, j, 12) = {} =>
                    \A k \in Items : inventory[k].id # IdOfRetained(j)

\* An earlier pass listed a record row-1, which the user actioned; the
\* pass that followed has a text of one line with the three cells blank,
\* and gives no record.
C20_Witness ==
    /\ Settled /\ fetchOutcome = "ok"
    /\ orderedItems = <<<<"r", "o", "w", "-", "1">>>>
    /\ Len(RetainedRows) = 1
    /\ RetainedRows[1][2] = <<>> /\ RetainedRows[1][3] = <<>>
    /\ RetainedRows[1][13] = <<>>
    /\ inventory = <<>>

\* --- the actioned list ---

IdsOf(list) == {list[k] : k \in 1..Len(list)}
NoDuplicates(list) == \A i, j \in 1..Len(list) : list[i] = list[j] => i = j

\* One call on a list: the result has no duplicates, the membership of the
\* id is the opposite of what it was and that of every other id is what it
\* was; a second call with the same id gives back the first membership.
TogglesCleanly(list, id) ==
    \A once \in {ToggleOrderUpdate(list, id)} :
       /\ NoDuplicates(once)
       /\ (id \in IdsOf(once)) = (id \notin IdsOf(list))
       /\ IdsOf(once) \ {id} = IdsOf(list) \ {id}
       /\ IdsOf(ToggleOrderUpdate(once, id)) = IdsOf(list)
       /\ NoDuplicates(ToggleOrderUpdate(once, id))

\* C21: from a saved list without duplicates, the actioned list never has
\* duplicates; a call of toggleOrder changes the membership of one id (so
\* an id is in the list when the number of its toggles is odd and it was
\* not there at first, or even and it was), two calls with the same id
\* give back the membership, and a step that changes the list leaves the
\* records alone.
C21_ToggleMembership ==
    /\ [](/\ NoDuplicates(orderedItems)
          /\ \A id \in ToggleIds \cup {Stale9} : TogglesCleanly(orderedItems, id))
    /\ [][orderedItems' # orderedItems =>
            /\ inventory' = inventory
            /\ \E id \in ToggleIds :
                  /\ (id \in IdsOf(orderedItems')) = (id \notin IdsOf(orderedItems))
                  /\ IdsOf(orderedItems') \ {id} = IdsOf(orderedItems) \ {id}]_vars

\* The saved list held sku-9, row-0, row-1; row-0 was toggled out and in
\* again, and stands last.
C21_Witness ==
    /\ orderedItems = <<Stale9, Row1, Row0>>
    /\ Len(inventory) = 2


====
